---- MODULE Spec2Model ----
(***************************************************************************)
(* HoopsHype rumors incremental updater (update_rumors.py) and the         *)
(* standalone projection builder (create_latest_json.py).                  *)
(*                                                                         *)
(* One run of update_rumors.main is a sequential script; the model follows *)
(* it step by step (pc) so that the environment (the wall clock, the       *)
(* remote site) can move between its statements.                           *)
(*                                                                         *)
(* A datetime is an integer number of ticks, TicksPerDay ticks to a day;   *)
(* a calendar date ("YYYY-MM-DD", whose string order is the order of the   *)
(* days) is the day number.  A text is a sequence of characters.  A        *)
(* record keeps the two fields the synchronisation reads, text and         *)
(* archive_date; date, quote, outlet, source_url and tags are carried      *)
(* through by the code untouched and are left out.                         *)
(***************************************************************************)
EXTENDS Integers, Sequences, FiniteSets, TLC

\* ---------------------------------------------------------------- constants
PARTS == 7              \* range(1, 8): hoopshype_rumors_part1..7.json
ACTIVE_PART == 7        \* last_part = 'hoopshype_rumors_part7.json'
FP_LEN == 100           \* text[:100]
LATEST_K == 100         \* all_rumors_for_latest[:100]

\* ------------------------------------------------------------------- bounds
TicksPerDay == 2        \* clock resolution: tick 0 of a day is midnight
FirstDay == 3           \* the day the clock shows initially
MaxTicks == 1           \* how many ticks the clock may advance
MaxRuns == 2            \* how many runs of main are started
MaxChanges == 1         \* how many times the remote site changes

Parts == 1..PARTS

\* ------------------------------------------------------------ time and dates
Date(dt) == dt \div TicksPerDay           \* datetime.date() / strftime('%Y-%m-%d')
FromIso(d) == d * TicksPerDay             \* datetime.fromisoformat('YYYY-MM-DD')
OneDay == TicksPerDay                     \* timedelta(days=1)
InitClock == FirstDay * TicksPerDay + (TicksPerDay - 1)
MaxClock == InitClock + MaxTicks

\* -------------------------------------------------------------------- texts
Pad(c, n, tail) == [i \in 1..(n + Len(tail)) |-> IF i <= n THEN c ELSE tail[i - n]]
NoText == << >>
TextA == Pad("x", FP_LEN, <<"a">>)        \* longer than the fingerprint
TextA2 == Pad("x", FP_LEN, <<"b">>)       \* differs from TextA after FP_LEN chars
TextB == <<"b">>
TextC == <<"c">>
TextD == <<"d">>

Min(a, b) == IF a <= b THEN a ELSE b

\* r['text'][:100] if r['text'] else ''
FingerprintFull(text) == text
Fingerprint(text) == IF text # << >> THEN SubSeq(text, 1, Min(FP_LEN, Len(text))) ELSE << >>

\* ------------------------------------------------------------------- records
Rec(t, d) == [text |-> t, archive_date |-> d]

\* a shard file: absent, unparseable, or a JSON list of records
Missing == [st |-> "missing", recs |-> << >>]
Malformed == [st |-> "malformed", recs |-> << >>]
File(rs) == [st |-> "ok", recs |-> rs]

\* what json.load gives for a part file that opens and parses, else nothing
Loaded(f) == IF f.st = "ok" THEN f.recs ELSE << >>

\* the part files with part p replaced by f
With(sh, p, f) == [sh EXCEPT ![p] = f]

RECURSIVE Reverse(_)
Reverse(s) == IF s = << >> THEN << >> ELSE Append(Reverse(Tail(s)), Head(s))

\* ------------------------------------------------------ load_existing_rumors
\* for r in rumors: existing_texts.add(...)
AddTexts(rs, acc) == acc \cup {Fingerprint(rs[i].text) : i \in 1..Len(rs)}

RECURSIVE ExistingFrom(_, _, _)
ExistingFrom(sh, part_num, acc) ==
  IF part_num > PARTS THEN acc
  ELSE ExistingFrom(sh, part_num + 1,
         IF sh[part_num].st = "ok" THEN AddTexts(sh[part_num].recs, acc) ELSE acc)

load_existing_rumors_active(sh) ==
  IF sh[ACTIVE_PART].st = "ok" THEN AddTexts(sh[ACTIVE_PART].recs, {}) ELSE {}
load_existing_rumors_history(sh) == ExistingFrom(With(sh, ACTIVE_PART, Missing), 1, {})
load_existing_rumors(sh) == ExistingFrom(sh, 1, {})

\* --------------------------------------------------------- load_latest_date
\* max(rumors, key=lambda x: x['archive_date']): the first record of maximal key
MaxByDate(rs, best) ==
  LET all == <<best>> \o rs
  IN all[CHOOSE i \in 1..Len(all) :
           /\ \A j \in 1..Len(all) : all[j].archive_date <= all[i].archive_date
           /\ \A j \in 1..(i - 1) : all[j].archive_date < all[i].archive_date]

NoDate == << >>          \* latest_date = None

RECURSIVE LatestFrom(_, _, _)
LatestFrom(sh, part_num, latest) ==
  IF part_num > PARTS THEN latest
  ELSE LET rumors == sh[part_num].recs
           part_date == FromIso(MaxByDate(Tail(rumors), Head(rumors)).archive_date)
       IN LatestFrom(sh, part_num + 1,
            IF sh[part_num].st = "ok" /\ rumors # << >>
              THEN IF latest = NoDate \/ part_date > latest[1] THEN <<part_date>> ELSE latest
              ELSE latest)

load_latest_date_last(sh, now) ==
  LET f == sh[ACTIVE_PART]
  IN IF f.st = "ok" /\ f.recs # << >>
       THEN FromIso(f.recs[Len(f.recs)].archive_date) ELSE now - OneDay
load_latest_date(sh, now) ==
  LET latest == LatestFrom(sh, 1, NoDate)
  IN IF latest = NoDate THEN now - OneDay ELSE latest[1]


\* ------------------------------------------------------ the remote site
\* What the site holds under a URL: a failure (network error, non-200 status,
\* unparseable markup) or a page, the candidates of its div.rumor blocks in page
\* order (newest first).  A candidate is the text of p.rumortext and the date
\* parsed from span.date (<< >> when absent or unparseable, else <<day>>).
Cand(t, p) == [text |-> t, parsed |-> p]
Failure == [ok |-> FALSE, page |-> << >>]
Page(cs) == [ok |-> TRUE, page |-> cs]

LiveUrl == <<"rumors", 0>>                       \* /rumors
ArchiveUrl(d) == <<"archive", d>>                \* /archive/rumors/YYYY/rumors-YYYYMMDD.htm

Responses ==
  { Failure,
    Page(<<Cand(NoText, << >>)>>),
    Page(<<Cand(TextA2, << >>), Cand(TextA, << >>)>>),
    Page(<<Cand(TextA, << >>), Cand(TextB, << >>), Cand(TextC, << >>)>>),
    Page(<<Cand(TextB, <<FirstDay - 2>>)>>),
    Page(<<Cand(TextC, <<FirstDay + 2>>)>>) }

\* ------------------------------------------------- scrape_rumors_for_date
UrlFor(date_obj, now) ==
  IF Date(date_obj) = Date(now) THEN LiveUrl ELSE ArchiveUrl(Date(date_obj))

RECURSIVE Extract(_, _)
Extract(cs, date_obj) ==
  IF cs = << >> THEN << >>
  ELSE LET c == Head(cs)
           rumor_data == Rec(c.text, IF c.parsed = << >> THEN Date(date_obj) ELSE c.parsed[1])
       IN (IF rumor_data.text # << >> THEN <<rumor_data>> ELSE << >>)
            \o Extract(Tail(cs), date_obj)

scrape_rumors_for_date(resp, date_obj) ==
  IF ~resp.ok THEN << >> ELSE Extract(resp.page, date_obj)

\* ------------------------------------------------ main: the duplicate filter
RECURSIVE FilterNoAdd(_, _, _)
FilterNoAdd(day_rumors, existing, truly_new) ==
  IF day_rumors = << >> THEN [new |-> truly_new, existing |-> existing]
  ELSE LET rumor == Head(day_rumors)
           fingerprint == Fingerprint(rumor.text)
       IN IF fingerprint # << >> /\ fingerprint \notin existing
            THEN FilterNoAdd(Tail(day_rumors), existing, Append(truly_new, rumor))
            ELSE FilterNoAdd(Tail(day_rumors), existing, truly_new)

RECURSIVE FilterNew(_, _, _)
FilterNew(day_rumors, existing, truly_new) ==
  IF day_rumors = << >> THEN [new |-> truly_new, existing |-> existing]
  ELSE LET rumor == Head(day_rumors)
           fingerprint == Fingerprint(rumor.text)
       IN IF fingerprint # << >> /\ fingerprint \notin existing
            THEN FilterNew(Tail(day_rumors), existing \cup {fingerprint}, Append(truly_new, rumor))
            ELSE FilterNew(Tail(day_rumors), existing, truly_new)

\* existing_rumors.extend(reversed(new_rumors))
ExtendKeepOrder(existing, new) == existing \o new
ExtendOverwrite(existing, new) == Reverse(new)
ExtendReversed(existing, new) == existing \o Reverse(new)

\* ------------------------------------------------- the latest projection
\* r['_part'] = part_num; r['_idx'] = i   (enumerate counts from 0)
Tag(part_data, part_num) ==
  [i \in 1..Len(part_data) |->
     [text |-> part_data[i].text, archive_date |-> part_data[i].archive_date,
      _part |-> part_num, _idx |-> i - 1]]

RECURSIVE AllTagged(_, _)
AllTagged(sh, part_num) ==
  IF part_num > PARTS THEN << >>
  ELSE Tag(Loaded(sh[part_num]), part_num) \o AllTagged(sh, part_num + 1)

\* key=lambda x: (x['archive_date'], x.get('_part', 0), x.get('_idx', 0))
Key(x) == <<x.archive_date, x._part, x._idx>>

\* the order of Python tuples of one length: k < m
TupleLess(k, m) ==
  \E i \in 1..Len(k) : k[i] < m[i] /\ \A j \in 1..(i - 1) : k[j] = m[j]

\* list.sort(key=..., reverse=True) of the Python library, keys[i] being the key
\* of xs[i]: a stable sort, greatest key first, elements of equal key in the
\* order they had.  place[i] is where xs[i] goes: one more than the number of
\* elements that come before it.
ListSortReverse(xs, keys) ==
  LET n == Len(xs)
      place == [i \in 1..n |->
                 1 + Cardinality({j \in 1..n :
                       \/ TupleLess(keys[i], keys[j])
                       \/ keys[i] = keys[j] /\ j < i})] \o << >>
  IN [k \in 1..n |-> xs[CHOOSE i \in 1..n : place[i] = k]] \o << >>

\* r.pop('_part', None); r.pop('_idx', None)
Strip(xs) == [i \in 1..Len(xs) |-> Rec(xs[i].text, xs[i].archive_date)]

Latest100All(all_rumors) ==
  Strip(ListSortReverse(all_rumors, [i \in 1..Len(all_rumors) |-> Key(all_rumors[i])]))
Latest100(all_rumors) ==
  LET sorted == ListSortReverse(all_rumors, [i \in 1..Len(all_rumors) |-> Key(all_rumors[i])])
  IN Strip(SubSeq(sorted, 1, Min(LATEST_K, Len(sorted))))

\* total += len(json.load(f)) over the parts that load
RECURSIVE TotalFrom(_, _)
TotalFrom(sh, part_num) ==
  IF part_num > PARTS THEN 0
  ELSE Len(Loaded(sh[part_num])) + TotalFrom(sh, part_num + 1)

\* rumors_index.json
IndexFile(st, t, n) == [st |-> st, last_updated |-> t, total_rumors |-> n]


\* ==================================================================== state
VARIABLES
  shards,          \* hoopshype_rumors_part1..7.json
  latest,          \* hoopshype_rumors_latest.json
  index,           \* rumors_index.json
  clock,           \* the wall clock, in US Eastern ticks
  remote,          \* what the site has been seen to hold: pairs <<url, response>>
  pc,              \* position of the running main, or idle / done / aborted
  existing_texts, latest_date, end_date, current_date, new_rumors, existing_rumors,
  runs,            \* number of runs started
  shards0,         \* history: the part files as the current run found them
  fetched,         \* history: the calls of scrape_rumors_for_date in this run
  new_bucket,      \* history: for each element of new_rumors, the date of its bucket
  written,         \* history: the files this run has opened for writing
  run0,            \* history: the clock, the remote epoch and the projection at the start
  prev,            \* history: how the previous run went
  epoch,           \* history: number of changes of the remote site so far
  built            \* history: what the last run of create_latest_json.py wrote

files == <<shards, latest, index>>
locals == <<existing_texts, latest_date, end_date, current_date, new_rumors, existing_rumors>>
hist == <<runs, shards0, fetched, new_bucket, written, run0, prev>>
vars == <<shards, latest, index, clock, remote, pc, existing_texts, latest_date, end_date,
          current_date, new_rumors, existing_rumors, runs, shards0, fetched, new_bucket,
          written, run0, prev, epoch, built>>

AllMissing == [p \in Parts |-> Missing]

\* The datasets a run may find.  D1..D3 are the days up to the initial clock day.
D1 == FirstDay - 2
D2 == FirstDay - 1
D3 == FirstDay
Datasets ==
  { \* first run: nothing on disk
    [shards |-> AllMissing, latest |-> Missing, index |-> IndexFile("missing", 0, 0)],
    \* parts that hold no record yet
    [shards |-> With(With(AllMissing, 1, File(<< >>)), ACTIVE_PART, File(<< >>)),
     latest |-> Missing, index |-> IndexFile("ok", 0, 0)],
    \* unsorted parts, the newest date neither last in its part nor in the active
    \* part; the projection is stale
    [shards |-> With(With(AllMissing, 2, File(<<Rec(TextA2, D2), Rec(TextD, D1)>>)),
                     ACTIVE_PART, File(<<Rec(TextB, D1)>>)),
     latest |-> File(<<Rec(TextD, D1)>>), index |-> IndexFile("ok", 0, 2)],
    \* an unparseable history part
    [shards |-> With(With(AllMissing, 3, Malformed), ACTIVE_PART, File(<<Rec(TextA, D3)>>)),
     latest |-> File(<<Rec(TextA, D3)>>), index |-> IndexFile("malformed", 0, 0)],
    \* an unparseable active part
    [shards |-> With(With(AllMissing, 1, File(<<Rec(TextB, D3)>>)), ACTIVE_PART, Malformed),
     latest |-> File(<<Rec(TextB, D3)>>), index |-> IndexFile("ok", 0, 1)] }

NotBuilt == [ran |-> FALSE, wrote |-> FALSE]
NoRun == [now |-> 0, epoch |-> 0, latest |-> Missing]
NoPrev == [done |-> FALSE, urls |-> {}, epoch |-> 0, day |-> 0, start |-> 0, accepted |-> 0]

Init ==
  /\ \E d \in Datasets : shards = d.shards /\ latest = d.latest /\ index = d.index
  /\ clock = InitClock
  /\ remote = {}
  /\ pc = "idle"
  /\ existing_texts = {} /\ latest_date = 0 /\ end_date = 0 /\ current_date = 0
  /\ new_rumors = << >> /\ existing_rumors = << >>
  /\ runs = 0 /\ shards0 = shards /\ fetched = << >> /\ new_bucket = << >>
  /\ written = {} /\ run0 = NoRun /\ prev = NoPrev /\ epoch = 0 /\ built = NotBuilt

\* no run of main is in progress
Stopped == {"idle", "done", "aborted", "killed"}

\* ============================================================== environment
\* time passes
Tick ==
  /\ clock < MaxClock
  /\ clock' = clock + 1
  /\ UNCHANGED <<files, remote, pc, locals, hist, epoch, built>>

\* the site changes what it holds under a URL
RemoteChange ==
  /\ epoch < MaxChanges
  /\ pc \in Stopped
  /\ \E p \in remote : remote' = remote \ {p}
  /\ epoch' = epoch + 1
  /\ UNCHANGED <<files, clock, pc, locals, hist, built>>

\* lines 266-267: the process is terminated from outside, or json.dump raises,
\* after open(last_part, 'w') and before the dump has ended; there is no handler
\* and no rollback, the truncated file stays.  (Terminated at any other line the
\* run leaves the part files as a completed step left them.)
Kill ==
  /\ pc = "dump"
  /\ pc' = "killed"
  /\ UNCHANGED <<files, clock, remote, locals, hist, epoch, built>>

\* ===================================================================== main
Urls(log) == {log[i].url : i \in 1..Len(log)}

\* lines 202-211: a new process; the fingerprints and the watermark
StartRun ==
  /\ pc \in Stopped
  /\ runs < MaxRuns
  /\ existing_texts' = load_existing_rumors(shards)
  /\ latest_date' = load_latest_date(shards, clock)
  /\ end_date' = 0 /\ current_date' = 0 /\ new_rumors' = << >> /\ existing_rumors' = << >>
  /\ pc' = "range"
  /\ runs' = runs + 1
  /\ shards0' = shards
  /\ run0' = [now |-> clock, epoch |-> epoch, latest |-> latest]
  /\ prev' = IF pc = "done"
               THEN [done |-> TRUE, urls |-> Urls(fetched), epoch |-> run0.epoch,
                     day |-> Date(run0.now), start |-> Date(latest_date),
                     accepted |-> Len(new_rumors)]
               ELSE NoPrev
  /\ fetched' = << >>
  /\ new_bucket' = << >>
  /\ written' = {}
  /\ UNCHANGED <<files, clock, remote, epoch, built>>

\* lines 215-222: the range of dates
SetRange ==
  /\ pc = "range"
  /\ end_date' = clock
  /\ current_date' = latest_date
  /\ new_rumors' = << >>
  /\ pc' = "loop"
  /\ UNCHANGED <<files, clock, remote, existing_texts, latest_date, existing_rumors, hist, epoch, built>>

Repeat(n, x) == [i \in 1..n |-> x]

\* lines 94-97, 192-194: a failed request or parse returns [] to the loop
ScrapeRaises(resp) == IF resp.ok THEN "loop" ELSE "aborted"
ScrapeOutcome(resp) == "loop"

\* lines 224-244: one turn of the loop, the call of scrape_rumors_for_date included
Fetch ==
  /\ pc = "loop"
  /\ current_date <= end_date
  /\ LET url == UrlFor(current_date, clock)
     IN \E resp \in Responses :
          /\ \A p \in remote : p[1] = url => p[2] = resp
          /\ remote' = remote \cup {<<url, resp>>}
          /\ pc' = ScrapeOutcome(resp)
          /\ LET day_rumors == scrape_rumors_for_date(resp, current_date)
                 res == FilterNew(day_rumors, existing_texts, << >>)
             IN /\ new_rumors' = new_rumors \o res.new
                /\ existing_texts' = res.existing
                /\ new_bucket' = new_bucket \o Repeat(Len(res.new), Date(current_date))
                /\ fetched' = Append(fetched, [date |-> Date(current_date), url |-> url,
                                               ok |-> resp.ok, rumors |-> day_rumors])
  /\ current_date' = current_date + OneDay
  /\ UNCHANGED <<files, clock, latest_date, end_date, existing_rumors,
                 runs, shards0, written, run0, prev, epoch, built>>

\* line 247, else branch: nothing new
NoNewRumors ==
  /\ pc = "loop"
  /\ current_date > end_date
  /\ new_rumors = << >>
  /\ pc' = "latest2"
  /\ UNCHANGED <<files, clock, remote, locals, hist, epoch, built>>

\* lines 255-263: the active part is read and extended in memory
ReadActive ==
  /\ pc = "loop"
  /\ current_date > end_date
  /\ new_rumors # << >>
  /\ shards[ACTIVE_PART].st # "malformed"
  /\ existing_rumors' = ExtendReversed(Loaded(shards[ACTIVE_PART]), new_rumors)
  /\ pc' = "open"
  /\ UNCHANGED <<files, clock, remote, existing_texts, latest_date, end_date, current_date,
                 new_rumors, hist, epoch, built>>

\* line 257: json.load raises, only FileNotFoundError is caught: main ends there
ReadActiveFails ==
  /\ pc = "loop"
  /\ current_date > end_date
  /\ new_rumors # << >>
  /\ shards[ACTIVE_PART].st = "malformed"
  /\ pc' = "aborted"
  /\ UNCHANGED <<files, clock, remote, locals, hist, epoch, built>>

\* line 266: open(last_part, 'w') leaves a file of zero bytes, which is no JSON
OpenActive ==
  /\ pc = "open"
  /\ shards' = With(shards, ACTIVE_PART, Malformed)
  /\ written' = written \cup {"part7"}
  /\ pc' = "dump"
  /\ UNCHANGED <<latest, index, clock, remote, locals, runs, shards0, fetched, new_bucket,
                 run0, prev, epoch, built>>

\* line 267: json.dump
DumpActive ==
  /\ pc = "dump"
  /\ shards' = With(shards, ACTIVE_PART, File(existing_rumors))
  /\ pc' = "latest1"
  /\ UNCHANGED <<latest, index, clock, remote, locals, hist, epoch, built>>

\* lines 273-304: the projection, written after an append
WriteLatest ==
  /\ pc = "latest1"
  /\ latest' = File(Latest100(AllTagged(shards, 1)))
  /\ written' = written \cup {"latest"}
  /\ pc' = "index"
  /\ UNCHANGED <<shards, index, clock, remote, locals, runs, shards0, fetched, new_bucket,
                 run0, prev, epoch, built>>

\* lines 307-329: the index file is read, updated and written back; when it cannot
\* be read the exception is caught and nothing is written.  last_updated is
\* datetime.now(), the instant of the write on the local clock; the model gives it
\* the tick of the one clock it has.
UpdateIndex ==
  /\ pc = "index"
  /\ IF index.st = "ok"
       THEN /\ index' = IndexFile("ok", clock, TotalFrom(shards, 1))
            /\ written' = written \cup {"index"}
       ELSE UNCHANGED <<index, written>>
  /\ pc' = "latest2"
  /\ UNCHANGED <<shards, latest, clock, remote, locals, runs, shards0, fetched, new_bucket,
                 run0, prev, epoch, built>>

\* lines 334-367: the projection, at the end of every run; None when nothing is written
NoWrite == << >>
ProjectionSkipped(sh) == NoWrite
ProjectionPatched(sh) ==
  IF AllTagged(sh, 1) # << >>
    THEN <<File(Loaded(latest) \o Latest100(AllTagged(sh, 1)))>> ELSE NoWrite
Projection(sh) ==
  IF AllTagged(sh, 1) # << >> THEN <<File(Latest100(AllTagged(sh, 1)))>> ELSE NoWrite

EnsureLatest ==
  /\ pc = "latest2"
  /\ IF Projection(shards) # NoWrite
       THEN /\ latest' = Projection(shards)[1]
            /\ written' = written \cup {"latest"}
       ELSE UNCHANGED <<latest, written>>
  /\ pc' = "done"
  /\ UNCHANGED <<shards, index, clock, remote, locals, runs, shards0, fetched, new_bucket,
                 run0, prev, epoch, built>>

\* ================================================ create_latest_json.py: main
\* lines 15-29: the parts that open and parse, each record with its part number
\* and its index; a part that is absent or raises is skipped
RECURSIVE all_rumors(_, _)
all_rumors(sh, part_num) ==
  IF part_num > PARTS THEN << >>
  ELSE LET data == IF sh[part_num].st = "ok" THEN sh[part_num].recs ELSE << >>
       IN [i \in 1..Len(data) |->
             [text |-> data[i].text, archive_date |-> data[i].archive_date,
              _part |-> part_num, _idx |-> i - 1]]
          \o all_rumors(sh, part_num + 1)

\* line 37: key=lambda x: (x['archive_date'], x.get('_part', 0), x.get('_idx', 0))
sort_key_no_idx(x) == <<x.archive_date, x._part, 0>>
sort_key(x) == <<x.archive_date, x._part, x._idx>>

\* lines 42-45: the first 100, without _part and _idx
latest_100(sorted) ==
  [i \in 1..(IF Len(sorted) < LATEST_K THEN Len(sorted) ELSE LATEST_K) |->
     [text |-> sorted[i].text, archive_date |-> sorted[i].archive_date]]

\* lines 31-33 and 48-49: what main writes to hoopshype_rumors_latest.json, if
\* anything
create_latest_json(sh) ==
  IF all_rumors(sh, 1) = << >> THEN NoWrite
  ELSE LET all == all_rumors(sh, 1)
       IN <<File(latest_100(ListSortReverse(all, [i \in 1..Len(all) |-> sort_key(all[i])])))>>

\* one run of create_latest_json.py, while no run of update_rumors.py is under way
CreateLatest ==
  /\ pc \in Stopped
  /\ LET out == create_latest_json(shards)
     IN /\ latest' = IF out = NoWrite THEN latest ELSE out[1]
        /\ built' = [ran |-> TRUE, wrote |-> out # NoWrite]
  /\ UNCHANGED <<shards, index, clock, remote, pc, locals, hist, epoch>>

Next ==
  \/ Tick
  \/ RemoteChange
  \/ Kill
  \/ StartRun
  \/ SetRange
  \/ Fetch
  \/ NoNewRumors
  \/ ReadActive
  \/ ReadActiveFails
  \/ OpenActive
  \/ DumpActive
  \/ WriteLatest
  \/ UpdateIndex
  \/ EnsureLatest

Spec == Init /\ [][Next]_vars

\* ========================================= the two projection builders alone
\* Part files that hold fewer than, exactly and more than LATEST_K records between
\* them: parts 1 and 6, part 4 (absent, unparseable or short) and the active part,
\* with archive dates that are not in the order of the positions; and no record.
Digit(n) == <<"0", "1", "2", "3", "4", "5", "6", "7", "8", "9">>[n + 1]
BigText(p, i) == <<"r", Digit(p), Digit(i \div 100), Digit((i \div 10) % 10), Digit(i % 10)>>
BigPart(p, n) == [i \in 1..n |-> Rec(BigText(p, i), D1 + ((i + p) % 3))]

BigSizes1 == {0, 45}
BigSizes7 == {0, 1, 10, 11, 45}
BigShards ==
  { With(With(With(With(AllMissing, 1, File(BigPart(1, n1))), 4, f4), 6, File(BigPart(6, 45))),
         ACTIVE_PART, File(BigPart(ACTIVE_PART, n7))) :
      n1 \in BigSizes1, f4 \in {Missing, Malformed, File(BigPart(4, 2))}, n7 \in BigSizes7 }
  \cup {AllMissing, With(AllMissing, ACTIVE_PART, File(<< >>))}

\* lines 224-244 with every request failing: the turns of the loop
FailedLoop(from, to) ==
  LET turns == Cardinality({k \in 0..(Date(to) + 1) : from + k * OneDay <= to})
  IN [i \in 1..turns |->
        [date |-> Date(from + (i - 1) * OneDay), url |-> UrlFor(from + (i - 1) * OneDay, to),
         ok |-> FALSE, rumors |-> << >>]]

\* A first run of main has reached line 334 without a new record, every request
\* having failed; the projection file is absent, unparseable or stale.
InitBuild ==
  /\ shards \in BigShards
  /\ latest \in {Missing, Malformed, File(<<Rec(TextD, D1)>>)}
  /\ index = IndexFile("ok", 0, 0)
  /\ clock = InitClock
  /\ pc = "latest2"
  /\ existing_texts = load_existing_rumors(shards)
  /\ latest_date = load_latest_date(shards, clock)
  /\ end_date = clock
  /\ fetched = FailedLoop(latest_date, end_date)
  /\ current_date = latest_date + Len(fetched) * OneDay
  /\ remote = {<<fetched[i].url, Failure>> : i \in 1..Len(fetched)}
  /\ new_rumors = << >> /\ existing_rumors = << >>
  /\ runs = 1 /\ shards0 = shards /\ new_bucket = << >> /\ written = {}
  /\ run0 = [now |-> clock, epoch |-> 0, latest |-> latest]
  /\ prev = NoPrev /\ epoch = 0 /\ built = NotBuilt

NextBuild ==
  \/ EnsureLatest
  \/ CreateLatest

SpecBuild == InitBuild /\ [][NextBuild]_vars


\* =============================================================== properties
\* Vocabulary of the properties, stated on the files and the history alone.

\* the first 100 characters of a text
First100(t) == [i \in 1..(IF Len(t) < 100 THEN Len(t) ELSE 100) |-> t[i]]

\* the records of the parts that parse, as <<archive_date, part, position, text>>
Entries(sh) ==
  UNION {{<<sh[p].recs[i].archive_date, p, i, sh[p].recs[i].text>> : i \in 1..Len(sh[p].recs)} :
           p \in {q \in Parts : sh[q].st = "ok"}}

StoredPrints(sh) == {First100(e[4]) : e \in Entries(sh)}

\* the run has built its fingerprint set and is in or past the loop
Looping == pc \in {"loop", "open", "dump", "latest1", "index", "latest2", "done", "aborted"}
\* the run has left the loop
PastLoop == pc \in {"open", "dump", "latest1", "index", "latest2", "done", "aborted"}
\* the run has written the active part
Appended == pc \in {"latest1", "index", "latest2", "done"} /\ new_rumors # << >>

\* what the run has appended to the active part so far
AppendedTail ==
  IF Appended
    THEN SubSeq(shards[ACTIVE_PART].recs, Len(Loaded(shards0[ACTIVE_PART])) + 1,
                Len(shards[ACTIVE_PART].recs))
    ELSE << >>

\* every candidate scrape_rumors_for_date has returned in this run, in processing order
RECURSIVE SeenFrom(_)
SeenFrom(i) == IF i > Len(fetched) THEN << >> ELSE fetched[i].rumors \o SeenFrom(i + 1)
Seen == SeenFrom(1)

\* C1: once load_existing_rumors has built the fingerprint set of a run, no record
\* the run accepts into new_rumors, and no record it appends to the active part,
\* has the first-100-characters fingerprint of a record stored in a part that
\* loaded.
C1_StoredNeverAccepted ==
  Looping =>
    /\ \A i \in 1..Len(new_rumors) :
         First100(new_rumors[i].text) \notin StoredPrints(shards0)
    /\ \A i \in 1..Len(AppendedTail) :
         First100(AppendedTail[i].text) \notin StoredPrints(shards0)

\* C1 witness: a finished run has fetched a candidate whose text differs from a
\* stored record's only after the 100th character, and has appended other records.
C1_Witness ==
  /\ pc = "done" /\ Appended
  /\ \E i \in 1..Len(Seen) : \E e \in Entries(shards0) :
       Seen[i].text # e[4] /\ First100(Seen[i].text) = First100(e[4])

\* C2: within one run, of the candidates fetched so far that share a non-empty
\* fingerprint absent from the stored parts, exactly one is in new_rumors, and it
\* is the first of them in processing order.
C2_FirstOccurrenceWins ==
  Looping =>
    \A i \in 1..Len(Seen) :
      LET f == First100(Seen[i].text)
          same == {j \in 1..Len(Seen) : First100(Seen[j].text) = f}
          first == CHOOSE j \in same : \A k \in same : j <= k
          taken == {k \in 1..Len(new_rumors) : First100(new_rumors[k].text) = f}
      IN (f # << >> /\ f \notin StoredPrints(shards0)) =>
           /\ Cardinality(taken) = 1
           /\ \A k \in taken : new_rumors[k] = Seen[first]

\* C2 witness: a finished run met the same new fingerprint in two different
\* buckets and, before that, twice in one bucket with different texts.
C2_Witness ==
  /\ pc = "done"
  /\ \E a, b \in 1..Len(fetched) :
       /\ a < b
       /\ Len(fetched[a].rumors) >= 2
       /\ fetched[a].rumors[1].text # fetched[a].rumors[2].text
       /\ First100(fetched[a].rumors[1].text) = First100(fetched[a].rumors[2].text)
       /\ First100(fetched[a].rumors[1].text) \notin StoredPrints(shards0)
       /\ \E j \in 1..Len(fetched[b].rumors) :
            First100(fetched[b].rumors[j].text) = First100(fetched[a].rumors[1].text)

\* s is a prefix of t
IsPrefix(s, t) == Len(s) <= Len(t) /\ \A i \in 1..Len(s) : s[i] = t[i]

\* C4: after a completed run parts 1..6 are as the run found them, the records the
\* active part held before the run are an unchanged prefix of what it holds now,
\* the run has opened no part file other than the active one for writing, and a
\* run that accepted nothing has opened no part file at all.
C4_AppendOnly ==
  pc = "done" =>
    /\ \A p \in Parts \ {ACTIVE_PART} : shards[p] = shards0[p]
    /\ shards0[ACTIVE_PART].st = "ok" => shards[ACTIVE_PART].st = "ok"
    /\ IsPrefix(Loaded(shards0[ACTIVE_PART]), Loaded(shards[ACTIVE_PART]))
    /\ new_rumors = << >> => (shards = shards0 /\ "part7" \notin written)

\* C4 witness: a completed run appended to an active part that held records.
C4_Witness ==
  /\ pc = "done" /\ Appended
  /\ Loaded(shards0[ACTIVE_PART]) # << >>
  /\ Len(shards[ACTIVE_PART].recs) > Len(shards0[ACTIVE_PART].recs)

\* C7: load_latest_date returns midnight of the greatest archive_date of all the
\* records of all the parts that load, and the clock minus one day when they hold
\* no record.
C7_Watermark ==
  pc = "range" =>
    LET dates == {e[1] : e \in Entries(shards0)}
    IN IF dates = {}
         THEN latest_date = run0.now - TicksPerDay
         ELSE /\ Date(latest_date) \in dates
              /\ \A d \in dates : d <= Date(latest_date)
              /\ latest_date % TicksPerDay = 0

\* C7 witness: the greatest date is stored in a part other than the active one and
\* is not the last record of its part, as in {05, 09} and {07}.
C7_Witness ==
  /\ pc = "range"
  /\ \E e \in Entries(shards0) :
       /\ e[1] = Date(latest_date)
       /\ e[2] # ACTIVE_PART
       /\ e[3] < Len(shards0[e[2]].recs)
       /\ \E g \in Entries(shards0) : g[2] # e[2] /\ g[1] < e[1]


\* the previous run completed, the site has not changed since that run started,
\* and the clock has shown one and the same date from its start until now
SecondRunUnchanged ==
  /\ pc = "done"
  /\ prev.done
  /\ prev.epoch = epoch
  /\ prev.day = Date(clock)

\* C3 as stated: a completed run followed by a run on the same date against
\* unchanged remote data without a fetch failure accepts nothing and leaves every
\* part as the first run left it.
C3_AsStated ==
  (SecondRunUnchanged /\ \A i \in 1..Len(fetched) : fetched[i].ok) =>
    (new_rumors = << >> /\ shards = shards0)

\* C3 amended: the same, provided the second run's watermark is not earlier than
\* the date the first run started from; persistent fetch failures do not matter.
C3_Idempotent ==
  (SecondRunUnchanged /\ prev.start <= Date(latest_date)) =>
    (new_rumors = << >> /\ shards = shards0 /\ "part7" \notin written)

\* C3 witness: the first run appended records, and the second run fetched pages
\* with candidates again and completed.
C3_Witness ==
  /\ SecondRunUnchanged /\ prev.start <= Date(latest_date)
  /\ prev.accepted > 0
  /\ \E i \in 1..Len(fetched) : \E j \in 1..Len(fetched[i].rumors) :
       \E k \in 1..Len(shards[ACTIVE_PART].recs) :
         fetched[i].rumors[j].text = shards[ACTIVE_PART].recs[k].text
         /\ k > Len(shards[ACTIVE_PART].recs) - prev.accepted


\* C5: when a completed run accepted three records A, B, C in this fetch order, all
\* of one archive_date, and the active part held no record before, the active part
\* is [C, B, A]; the projection lists A before B before C, and they are its first
\* three entries whenever no other part holds a record of a later archive_date.
C5_Premise ==
  /\ pc = "done"
  /\ Len(new_rumors) = 3
  /\ new_rumors[1].archive_date = new_rumors[2].archive_date
  /\ new_rumors[2].archive_date = new_rumors[3].archive_date
  /\ Loaded(shards0[ACTIVE_PART]) = << >>

C5_ReversedAppend ==
  C5_Premise =>
    /\ shards[ACTIVE_PART] = File(<<new_rumors[3], new_rumors[2], new_rumors[1]>>)
    /\ latest.st = "ok"
    /\ \E i, j, k \in 1..Len(latest.recs) :
         /\ i < j /\ j < k
         /\ latest.recs[i] = new_rumors[1]
         /\ latest.recs[j] = new_rumors[2]
         /\ latest.recs[k] = new_rumors[3]
    /\ (\A e \in Entries(shards) : e[1] <= new_rumors[1].archive_date) =>
         SubSeq(latest.recs, 1, 3) = new_rumors

\* C5 witness: such a run has completed and A, B, C head the projection.
C5_Witness ==
  /\ C5_Premise
  /\ Len(latest.recs) >= 3
  /\ latest.recs[1] = new_rumors[1]
  /\ shards[ACTIVE_PART].recs[3] = new_rumors[1]

\* position in the active part of a record this run appended
PosInActive(r) ==
  CHOOSE k \in (Len(Loaded(shards0[ACTIVE_PART])) + 1)..Len(shards[ACTIVE_PART].recs) :
    shards[ACTIVE_PART].recs[k] = r

\* C6 as stated: after a run has appended, a record accepted from a later bucket
\* is at a higher position of the active part than every record of the run from
\* an earlier bucket, and the newest record of the run (the first of the last
\* bucket that gave any) is the last record of the part.
C6_RecencyOrder ==
  (pc = "done" /\ Appended) =>
    /\ \A i, j \in 1..Len(new_rumors) :
         new_bucket[i] < new_bucket[j] =>
           PosInActive(new_rumors[i]) < PosInActive(new_rumors[j])
    /\ LET last_bucket == new_bucket[Len(new_bucket)]
           newest == CHOOSE i \in 1..Len(new_rumors) :
                       /\ new_bucket[i] = last_bucket
                       /\ \A j \in 1..Len(new_rumors) : new_bucket[j] = last_bucket => i <= j
       IN shards[ACTIVE_PART].recs[Len(shards[ACTIVE_PART].recs)] = new_rumors[newest]

\* C8 as stated: when the loop has ended, scrape_rumors_for_date has been called
\* exactly once for each date from the watermark date through the current date (the
\* date of end_date), in ascending order, and for no other date.
C8_EveryDateOnce ==
  PastLoop =>
    /\ Len(fetched) =
         (IF Date(end_date) < Date(latest_date) THEN 0
          ELSE Date(end_date) - Date(latest_date) + 1)
    /\ \A i \in 1..Len(fetched) : fetched[i].date = Date(latest_date) + i - 1

\* C9: a failed fetch gives the run no candidate and does not end it: the run is
\* ended early only by an unparseable active part, met after the loop; the loop
\* calls scrape_rumors_for_date day after day from latest_date until end_date is
\* passed; and a completed run has appended every accepted record to the active
\* part.
C9_FetchFailureTolerated ==
  /\ \A i \in 1..Len(fetched) : ~fetched[i].ok => fetched[i].rumors = << >>
  /\ pc = "aborted" =>
       (current_date > end_date /\ new_rumors # << >> /\ shards[ACTIVE_PART].st = "malformed")
  /\ Looping =>
       /\ \A i \in 1..Len(fetched) : fetched[i].date = Date(latest_date + (i - 1) * TicksPerDay)
       /\ current_date = latest_date + Len(fetched) * TicksPerDay
  /\ PastLoop => current_date > end_date
  /\ pc = "done" =>
       \A i \in 1..Len(new_rumors) :
         \E k \in 1..Len(Loaded(shards[ACTIVE_PART])) :
           /\ k > Len(Loaded(shards0[ACTIVE_PART]))
           /\ shards[ACTIVE_PART].recs[k] = new_rumors[i]

\* C9 witness: a completed run whose first fetch failed, whose later fetch gave
\* records, and which appended them.
C9_Witness ==
  /\ pc = "done" /\ Appended
  /\ Len(fetched) >= 2
  /\ ~fetched[1].ok
  /\ \E i \in 2..Len(fetched) : fetched[i].ok /\ fetched[i].rumors # << >>

\* the top-K view of the parts: the records of the parts that parse, newest first
\* by (archive_date, part, position), the first 100 of them
Newer(g, e) ==
  \/ g[1] > e[1]
  \/ g[1] = e[1] /\ g[2] > e[2]
  \/ g[1] = e[1] /\ g[2] = e[2] /\ g[3] > e[3]

TopView(sh) ==
  LET E == Entries(sh)
      n == IF Cardinality(E) < 100 THEN Cardinality(E) ELSE 100
  IN [i \in 1..n |->
        LET e == CHOOSE x \in E : Cardinality({g \in E : Newer(g, x)}) = i - 1
        IN [text |-> e[4], archive_date |-> e[1]]]

C11_MetadataRefreshed ==
  (pc = "done" /\ index.st = "ok") =>
    /\ "index" \in written
    /\ index.last_updated >= run0.now
    /\ index.total_rumors = Cardinality(Entries(shards))

\* the number of entries that sort before e: of a later archive_date, or of the
\* same date and a higher part, or of the same date and part and a higher position
Rank(e, E) == Cardinality({g \in E : Newer(g, e)})

\* C12: a projection written by either builder holds min(100, number of stored
\* records) records; the record of rank r < 100 in the order (archive_date
\* descending, part descending, position descending) is at place r + 1; and the
\* records have the fields text and archive_date and no other.
C12_ProjectionIsTopK ==
  (pc = "done" /\ Entries(shards) # {}) =>
    LET E == Entries(shards)
    IN /\ latest.st = "ok"
       /\ Len(latest.recs) = (IF Cardinality(E) < 100 THEN Cardinality(E) ELSE 100)
       /\ \A e \in E :
            LET r == Rank(e, E)
            IN r < 100 => latest.recs[r + 1] = [text |-> e[4], archive_date |-> e[1]]
       /\ \A i \in 1..Len(latest.recs) : DOMAIN latest.recs[i] = {"text", "archive_date"}

\* C12 witness: more than 100 records are stored, in three parts; the projection
\* holds 100 of them, a record of part 1 among them, and leaves out a record of the
\* active part; the standalone builder has written it after the run did.
C12_Witness ==
  /\ pc = "done" /\ built.wrote
  /\ Cardinality(Entries(shards)) > 100
  /\ Cardinality({e[2] : e \in Entries(shards)}) = 3
  /\ Len(latest.recs) = 100
  /\ \E e, g \in Entries(shards) :
       /\ e[2] = ACTIVE_PART /\ g[2] = 1
       /\ \A i \in 1..100 : latest.recs[i].text # e[4]
       /\ \E i \in 1..100 : latest.recs[i].text = g[4]

C14_AtomicWrite ==
  pc \in {"dump", "killed"} =>
    \/ shards[ACTIVE_PART] = shards0[ACTIVE_PART]
    \/ /\ shards[ACTIVE_PART].st = "ok"
       /\ IsPrefix(Loaded(shards0[ACTIVE_PART]), shards[ACTIVE_PART].recs)
       /\ Len(shards[ACTIVE_PART].recs) = Len(Loaded(shards0[ACTIVE_PART])) + Len(new_rumors)

\* C15 as stated: no run is ended by a part file that cannot be parsed, the active
\* part included; such a part gives the run no fingerprint, no watermark date and
\* no projection entry.
C15_MalformedNeverAborts ==
  /\ pc # "aborted"
  /\ Looping =>
       \A p \in Parts : shards0[p].st = "malformed" =>
         /\ existing_texts \cap {First100(NoText)} \subseteq StoredPrints(shards0)
         /\ \/ Entries(shards0) = {}
            \/ \E e \in Entries(shards0) : e[2] # p /\ e[1] = Date(latest_date)

\* C16 as stated: when a run that appended records has completed,
\* rumors_index.json parses, was written by this run, gives as total_rumors the
\* number of records of the parts as they are now and as last_updated an instant
\* of this run, whatever the file was before the run.
C16_MetadataRebuilt ==
  (pc = "done" /\ Appended) =>
    /\ index.st = "ok" /\ "index" \in written
    /\ index.total_rumors = Cardinality(Entries(shards))
    /\ run0.now <= index.last_updated /\ index.last_updated <= clock

\* C17 as stated: one instant, the clock at the start of the run, serves the run
\* throughout: the fallback watermark is that instant minus one day, end_date is
\* that instant, and scrape_rumors_for_date takes a bucket for today's (the live
\* page) exactly when it is the date of that instant.
C17_ClockOnce ==
  Looping =>
    /\ Entries(shards0) = {} => latest_date = run0.now - TicksPerDay
    /\ end_date = run0.now
    /\ \A i \in 1..Len(fetched) :
         fetched[i].url = LiveUrl <=> fetched[i].date = Date(run0.now)

\* C18 as stated: when the loop of a run has ended, scrape_rumors_for_date has been
\* called for the bucket of the current date (a date the clock has shown during
\* the run), whatever the part files held.
C18_TodayFetched ==
  PastLoop =>
    \E i \in 1..Len(fetched) :
      Date(run0.now) <= fetched[i].date /\ fetched[i].date <= Date(clock)

\* every part file parses or is absent
WellFormed(sh) == \A p \in Parts : sh[p].st # "malformed"

\* no two stored records have the same first 100 characters
UniquePrints(sh) ==
  \A e, g \in Entries(sh) :
    First100(e[4]) = First100(g[4]) => (e[2] = g[2] /\ e[3] = g[3])

\* C19: a run that found well-formed part files without two records of the same
\* fingerprint leaves, at every moment and when it has completed, part files
\* without two records of the same fingerprint, and every record it has
\* appended has a text; by induction, so does every sequence of completed runs.
C19_UniqueFingerprints ==
  (WellFormed(shards0) /\ UniquePrints(shards0)) =>
    /\ UniquePrints(shards)
    /\ \A i \in 1..Len(AppendedTail) : AppendedTail[i].text # << >>

\* C19 witness: the second of two completed runs that both appended; it met a
\* candidate with the fingerprint of a stored record.
C19_Witness ==
  /\ pc = "done" /\ Appended /\ prev.done /\ prev.accepted > 0
  /\ WellFormed(shards0) /\ UniquePrints(shards0)
  /\ \E i \in 1..Len(Seen) : First100(Seen[i].text) \in StoredPrints(shards0)

\* C20: a run of create_latest_json.py that follows the end-of-run rebuild of
\* update_rumors.py on the same part files writes the projection file exactly
\* when the rebuild wrote it, which is when a record is stored, and leaves in it
\* the content the rebuild wrote.
C20_BuildersAgree ==
  [][built' # built =>
       /\ built'.wrote = ("latest" \in written)
       /\ built'.wrote = (Entries(shards) # {})
       /\ latest' = latest]_vars

\* C20 witness: both have written the projection of more than 100 records, one
\* part being unparseable and others absent, over a file of other content.
C20_Witness ==
  /\ pc = "done" /\ built.ran /\ built.wrote /\ "latest" \in written
  /\ Cardinality(Entries(shards)) > 100
  /\ \E p, q \in Parts : shards[p].st = "malformed" /\ shards[q].st = "missing"
  /\ run0.latest # latest

====
